---- MODULE Spec2Model ----
(***************************************************************************)
(* Task priority predictor: SimpleTaskPriorityAI (src/simple_task_ai.py)   *)
(* served by the Flask handlers of src/api_server.py.                      *)
(*                                                                         *)
(* State: the engine's task_history and learned_patterns, the persisted    *)
(* task_data.json, the position of the server process (module start-up     *)
(* code not yet run / serving) and the last HTTP response.                 *)
(***************************************************************************)
EXTENDS Integers, Sequences, FiniteSets, TLC

VARIABLES
    pc,                \* "boot": engine constructed, start-up code not run; "serving";
                       \* "crashed": the process died with an uncaught exception
    task_history,      \* SimpleTaskPriorityAI.task_history (list of dicts)
    learned_patterns,  \* SimpleTaskPriorityAI.learned_patterns (dict key -> dict priority -> count)
    file,              \* task_data.json: whether it exists, and its text
    response,          \* last response produced by a handler
    rule_call,         \* a direct call of the rule classifier: arguments and result
    calls,             \* handler calls made so far, which bounds the exploration
    rng,               \* the draws random.seed(42) fixes for every generate_sample_data call
    workers            \* the request each server thread is handling and how far it got

vars == <<pc, task_history, learned_patterns, file, response, rule_call, calls, rng, workers>>

----------------------------------------------------------------------------
(* Bounds of the exploration *)

\* records produced by one generate_sample_data call (the code passes 100)
NumTasks == 1
\* records appended by the API handlers in one behaviour
MaxAppends == 2
\* calls of /api/reset in one behaviour
MaxResets == 1
\* writes of task_data.json that fail in one behaviour
MaxFailures == 1
\* records appended in one behaviour of the client that repeats a request
MaxRun == 6

----------------------------------------------------------------------------
(* The enumerations of SimpleTaskPriorityAI.__init__ *)

task_types == <<"email", "coding", "meeting", "personal", "research", "review">>
time_periods == <<"morning", "afternoon", "evening">>
urgency_levels == <<"high", "medium", "low">>
priority_levels == <<"HIGH", "MEDIUM", "LOW">>

Range(s) == {s[i] : i \in 1..Len(s)}

\* the defaultdict the constructor creates: no key yet
EmptyPatterns == [k \in {} |-> <<>>]

\* os.path.exists('task_data.json') is false
NoFile == [exists |-> FALSE, text |-> <<>>, complete |-> FALSE]
\* the file after a write that ran to its end: the whole JSON text
FileWith(text) == [exists |-> TRUE, text |-> text, complete |-> TRUE]
\* the file after open(filename, 'w') and a write that stopped after cut
\* objects: what is there is not a JSON document
TruncatedFile(text, cut) == [exists |-> TRUE, text |-> SubSeq(text, 1, cut), complete |-> FALSE]
NoCalls == [appends |-> 0, resets |-> 0, failures |-> 0, learns |-> 0]

\* the threads of the development server (app.run serves each request in
\* a thread of its own)
Threads == {1, 2}
IdleWorker == [pc |-> "idle"]
NoWorkers == [t \in Threads |-> IdleWorker]
NoResponse == [op |-> "none", status |-> 0]
NoCall == [stage |-> "idle", task_type |-> "", time_of_day |-> "", urgency |-> "", priority |-> "",
           reasoning |-> ""]

----------------------------------------------------------------------------
(* Inputs the exploration draws from *)

\* (task_type, time_of_day, urgency) triples random.choices may draw
SampleKeys == {<<"email", "morning", "high">>}

\* triples sent to /api/predict; the last one is outside the task_type
\* enumeration
InputKeys == {<<"email", "morning", "high">>,
              <<"coding", "morning", "low">>,
              <<"bogus", "evening", "low">>}

\* triples and priorities sent to /api/tasks
AddKeys == {<<"email", "morning", "high">>}

InputPriorities == {"HIGH", "MEDIUM"}

\* datetime.now().isoformat(): the timestamp is never read by the engine
Timestamp == "iso-8601"

----------------------------------------------------------------------------
(* SimpleTaskPriorityAI._calculate_rule_based_priority *)

\* variant: the urgency default is tested before the evening rule
_calculate_rule_based_priority_urgency_first(task_type, time_of_day, urgency) ==
    IF urgency = "high" /\ time_of_day = "morning" THEN "HIGH"
    ELSE IF task_type = "email" /\ time_of_day = "afternoon" THEN "MEDIUM"
    ELSE IF task_type \in {"coding", "research"} /\ time_of_day = "morning" THEN "HIGH"
    ELSE IF task_type = "meeting" /\ time_of_day = "afternoon" THEN "MEDIUM"
    ELSE IF urgency = "high" THEN "HIGH"
    ELSE IF urgency = "medium" THEN "MEDIUM"
    ELSE IF time_of_day = "evening" THEN "LOW"
    ELSE "LOW"

\* variant: the default branch returns the urgency value itself
_calculate_rule_based_priority_raw_urgency(task_type, time_of_day, urgency) ==
    IF urgency = "high" /\ time_of_day = "morning" THEN "HIGH"
    ELSE IF task_type = "email" /\ time_of_day = "afternoon" THEN "MEDIUM"
    ELSE IF task_type \in {"coding", "research"} /\ time_of_day = "morning" THEN "HIGH"
    ELSE IF task_type = "meeting" /\ time_of_day = "afternoon" THEN "MEDIUM"
    ELSE IF time_of_day = "evening" THEN "LOW"
    ELSE urgency

_calculate_rule_based_priority(task_type, time_of_day, urgency) ==
    IF urgency = "high" /\ time_of_day = "morning" THEN "HIGH"
    ELSE IF task_type = "email" /\ time_of_day = "afternoon" THEN "MEDIUM"
    ELSE IF task_type \in {"coding", "research"} /\ time_of_day = "morning" THEN "HIGH"
    ELSE IF task_type = "meeting" /\ time_of_day = "afternoon" THEN "MEDIUM"
    ELSE IF time_of_day = "evening" THEN "LOW"
    ELSE IF urgency = "high" THEN "HIGH"
    ELSE IF urgency = "medium" THEN "MEDIUM"
    ELSE "LOW"

----------------------------------------------------------------------------
(* SimpleTaskPriorityAI.learn_patterns *)

\* variant: the key leaves the urgency out
PatternKey_without_urgency(task_type, time_of_day, urgency) ==
    task_type \o "_" \o time_of_day

\* key = f"{task_type}_{time_of_day}_{urgency}"
PatternKey(task_type, time_of_day, urgency) ==
    task_type \o "_" \o time_of_day \o "_" \o urgency

\* self.learned_patterns[key][priority] += 1 on the nested defaultdict:
\* a missing key gets an empty inner dict, a missing priority is inserted
\* at the end of the inner dict with count 1.  The inner dict is a sequence
\* of (priority, count) entries in insertion order.
IncrementPattern(lp, key, priority) ==
    LET inner == IF key \in DOMAIN lp THEN lp[key] ELSE <<>>
        at == {i \in 1..Len(inner) : inner[i].priority = priority}
        inner2 == IF at = {}
                  THEN Append(inner, [priority |-> priority, count |-> 1])
                  ELSE [i \in 1..Len(inner) |->
                          IF i \in at
                          THEN [priority |-> priority, count |-> inner[i].count + 1]
                          ELSE inner[i]]
    IN  [k \in (DOMAIN lp) \cup {key} |-> IF k = key THEN inner2 ELSE lp[k]]

RECURSIVE LearnFrom(_, _, _)
LearnFrom(lp, tasks, i) ==
    IF i > Len(tasks) THEN lp
    ELSE LearnFrom(IncrementPattern(lp,
                       PatternKey(tasks[i].task_type, tasks[i].time_of_day, tasks[i].urgency),
                       tasks[i].priority),
                   tasks, i + 1)

\* variant: the loop stops before the newest task
learn_patterns_without_last(lp, tasks) ==
    LearnFrom(lp, SubSeq(tasks, 1, Len(tasks) - 1), 1)

\* the loop runs over the tasks on top of the patterns already held
learn_patterns(lp, tasks) == LearnFrom(lp, tasks, 1)

----------------------------------------------------------------------------
(* SimpleTaskPriorityAI.predict_priority *)

RECURSIVE SumCounts(_, _)
SumCounts(inner, i) == IF i > Len(inner) THEN 0 ELSE inner[i].count + SumCounts(inner, i + 1)

\* variant: the last key whose count is the largest
MostCommon_last(inner) ==
    LET best == {i \in 1..Len(inner) : \A j \in 1..Len(inner) : inner[j].count <= inner[i].count}
        last == CHOOSE i \in best : \A j \in best : j <= i
    IN  inner[last]

\* max(pattern_counts, key=pattern_counts.get): the first key, in the
\* dict's iteration (insertion) order, whose count is the largest
MostCommon(inner) ==
    LET best == {i \in 1..Len(inner) : \A j \in 1..Len(inner) : inner[j].count <= inner[i].count}
        first == CHOOSE i \in best : \A j \in best : i <= j
    IN  inner[first]

\* 0.6 as the fraction 3/5; a confidence is a pair <<numerator, denominator>>
RuleConfidence == <<3, 5>>

predict_priority(lp, task_type, time_of_day, urgency) ==
    LET key == PatternKey(task_type, time_of_day, urgency)
        total == SumCounts(lp[key], 1)
    IN  IF key \in DOMAIN lp /\ total > 0
        THEN [priority |-> MostCommon(lp[key]).priority,
              confidence |-> <<MostCommon(lp[key]).count, total>>]
        ELSE [priority |-> _calculate_rule_based_priority(task_type, time_of_day, urgency),
              confidence |-> RuleConfidence]

----------------------------------------------------------------------------
(* SimpleTaskPriorityAI._get_reasoning *)

RECURSIVE Join(_, _)
Join(reasons, i) ==
    IF i > Len(reasons) THEN ""
    ELSE IF i = Len(reasons) THEN reasons[i]
    ELSE reasons[i] \o " + " \o Join(reasons, i + 1)

\* variant: the task_type clauses are appended before the other two
_get_reasoning_type_first(task_type, time_of_day, urgency) ==
    LET r1 == IF urgency = "high" THEN <<"High urgency task">> ELSE <<>>
        r2 == IF time_of_day = "morning"
              THEN <<"Morning time slot (typically high productivity)">> ELSE <<>>
        r3 == IF task_type \in {"coding", "research"} THEN <<"Creative/technical task">> ELSE <<>>
        r4 == IF task_type = "email" THEN <<"Communication task">> ELSE <<>>
        reasons == r3 \o r4 \o r1 \o r2
    IN  Join(IF reasons = <<>> THEN <<"Based on learned patterns">> ELSE reasons, 1)

_get_reasoning(task_type, time_of_day, urgency) ==
    LET r1 == IF urgency = "high" THEN <<"High urgency task">> ELSE <<>>
        r2 == IF time_of_day = "morning"
              THEN <<"Morning time slot (typically high productivity)">> ELSE <<>>
        r3 == IF task_type \in {"coding", "research"} THEN <<"Creative/technical task">> ELSE <<>>
        r4 == IF task_type = "email" THEN <<"Communication task">> ELSE <<>>
        reasons == r1 \o r2 \o r3 \o r4
    IN  Join(IF reasons = <<>> THEN <<"Based on learned patterns">> ELSE reasons, 1)

----------------------------------------------------------------------------
(* SimpleTaskPriorityAI.generate_sample_data *)

\* variant: the record's priority is taken from the urgency
NewTask_priority_from_urgency(id, task_type, time_of_day, urgency, priority) ==
    [task_id |-> id, task_type |-> task_type, time_of_day |-> time_of_day,
     urgency |-> urgency, priority |-> urgency, completion_order |-> id,
     created_date |-> Timestamp]

NewTask(id, task_type, time_of_day, urgency, priority) ==
    [task_id |-> id, task_type |-> task_type, time_of_day |-> time_of_day,
     urgency |-> urgency, priority |-> priority, completion_order |-> id,
     created_date |-> Timestamp]

\* what one pass of the loop may draw: a triple, and as its priority the
\* rule's priority or, when the 15% override fires, any priority
SampleDraws ==
    UNION {{[key |-> k, priority |-> p] :
               p \in {_calculate_rule_based_priority(k[1], k[2], k[3])}
                      \cup Range(priority_levels)} : k \in SampleKeys}

\* random.seed(42) opens every call, so every call makes the same draws;
\* which draws these are is left open
SeededDraws(num_tasks) == [1..num_tasks -> SampleDraws]

\* the list generate_sample_data(num_tasks) returns and appends to
\* task_history: task i (from 0) gets task_id = completion_order = i + 1
generate_sample_data(draws, num_tasks) ==
    [i \in 1..num_tasks |->
        NewTask(i, draws[i].key[1], draws[i].key[2], draws[i].key[3], draws[i].priority)]

----------------------------------------------------------------------------
(* SimpleTaskPriorityAI.save_data / the json.load of the start-up code *)

FieldOrder == <<"task_id", "task_type", "time_of_day", "urgency", "priority",
                "completion_order", "created_date">>

NumberFields == {"task_id", "completion_order"}

\* json.dump of the list of dicts: an array of objects, each the members
\* name : value in the dict's insertion order, a value being a JSON number
\* or a JSON string
json_dump(history) ==
    [i \in 1..Len(history) |->
        [j \in 1..Len(FieldOrder) |->
            [name |-> FieldOrder[j],
             kind |-> IF FieldOrder[j] \in NumberFields THEN "number" ELSE "string",
             value |-> history[i][FieldOrder[j]]]]]

\* variant: the text written lacks the newest record
save_data_without_last(history) ==
    FileWith(json_dump(SubSeq(history, 1, Len(history) - 1)))

\* open(filename, 'w') and json.dump(self.task_history, f)
save_data(history) == FileWith(json_dump(history))

\* what a save_data call that raises can leave behind: open() failed and
\* the file is as it was, or open() emptied the file and nothing of the
\* buffered text reached it
FailedWrites(old_file, history) ==
    {old_file, TruncatedFile(json_dump(history), 0)}

\* json.load: every object becomes a dict of its members
json_load(text) ==
    [i \in 1..Len(text) |->
        [f \in {text[i][j].name : j \in 1..Len(text[i])} |->
            text[i][CHOOSE j \in 1..Len(text[i]) : text[i][j].name = f].value]]

----------------------------------------------------------------------------
(* The server process: src/api_server.py *)

Init ==
    /\ pc = "boot"
    /\ task_history = <<>>
    /\ learned_patterns = EmptyPatterns
    /\ file = NoFile
    /\ response = NoResponse
    /\ rule_call = NoCall
    /\ calls = NoCalls
    /\ rng \in SeededDraws(NumTasks)
    /\ workers = NoWorkers

\* module start-up, task_data.json exists: load it and learn from it
StartupLoad ==
    /\ pc = "boot"
    /\ file.exists
    /\ file.complete
    /\ task_history' = json_load(file.text)
    /\ learned_patterns' = learn_patterns(learned_patterns, json_load(file.text))
    /\ pc' = "serving"
    /\ response' = [op |-> "load", status |-> 0]
    /\ UNCHANGED <<file, rule_call, calls, rng, workers>>

\* module start-up, no task_data.json: generate, learn, save
StartupBootstrap ==
    /\ pc = "boot"
    /\ ~file.exists
    /\ LET tasks == generate_sample_data(rng, NumTasks)
       IN  /\ task_history' = task_history \o tasks
           /\ learned_patterns' = learn_patterns(learned_patterns, tasks)
           /\ file' = save_data(task_history \o tasks)
    /\ pc' = "serving"
    /\ response' = [op |-> "bootstrap", status |-> 0]
    /\ UNCHANGED <<rule_call, calls, rng, workers>>

\* the first name of required_fields that the request body lacks, or ""
MissingField(data, required_fields) ==
    LET missing == {i \in 1..Len(required_fields) : required_fields[i] \notin DOMAIN data}
    IN  IF missing = {} THEN ""
        ELSE required_fields[CHOOSE i \in missing : \A j \in missing : i <= j]

PredictRequests ==
    {[task_type |-> k[1], time_of_day |-> k[2], urgency |-> k[3]] : k \in InputKeys}
    \cup {[task_type |-> "email", time_of_day |-> "morning"]}

AddRequests ==
    {[task_type |-> k[1], time_of_day |-> k[2], urgency |-> k[3], priority |-> p] :
        k \in AddKeys, p \in InputPriorities}
    \cup {[task_type |-> "email", time_of_day |-> "morning", urgency |-> "high"]}

\* POST /api/predict
predict_priority_api(data) ==
    LET lacking == MissingField(data, <<"task_type", "time_of_day", "urgency">>)
    IN  IF lacking # ""
        THEN /\ response' = [op |-> "predict", status |-> 400, request |-> data,
                             error |-> "Missing required field: " \o lacking]
             /\ UNCHANGED <<task_history, learned_patterns, file>>
        ELSE LET prediction == predict_priority(learned_patterns, data.task_type,
                                                data.time_of_day, data.urgency)
                 reasoning == _get_reasoning(data.task_type, data.time_of_day, data.urgency)
                 new_task == NewTask(Len(task_history) + 1, data.task_type,
                                     data.time_of_day, data.urgency, prediction.priority)
                 history2 == Append(task_history, new_task)
             IN  /\ task_history' = history2
                 /\ learned_patterns' = learn_patterns(learned_patterns, history2)
                 /\ file' = save_data(history2)
                 /\ response' = [op |-> "predict", status |-> 200, request |-> data,
                                 priority |-> prediction.priority,
                                 confidence |-> prediction.confidence,
                                 reasoning |-> reasoning]

PredictApi ==
    /\ pc = "serving"
    /\ calls.appends < MaxAppends
    /\ \E data \in PredictRequests : predict_priority_api(data)
    /\ calls' = [calls EXCEPT !.appends = IF task_history' # task_history THEN @ + 1 ELSE @]
    /\ UNCHANGED <<pc, rule_call, rng, workers>>

\* POST /api/tasks
add_task(data) ==
    LET lacking == MissingField(data, <<"task_type", "time_of_day", "urgency", "priority">>)
    IN  IF lacking # ""
        THEN /\ response' = [op |-> "add", status |-> 400, request |-> data,
                             error |-> "Missing required field: " \o lacking]
             /\ UNCHANGED <<task_history, learned_patterns, file>>
        ELSE LET new_task == NewTask(Len(task_history) + 1, data.task_type,
                                     data.time_of_day, data.urgency, data.priority)
                 history2 == Append(task_history, new_task)
             IN  /\ task_history' = history2
                 /\ learned_patterns' = learn_patterns(learned_patterns, history2)
                 /\ file' = save_data(history2)
                 /\ response' = [op |-> "add", status |-> 200, request |-> data,
                                 task |-> new_task]

AddTaskApi ==
    /\ pc = "serving"
    /\ calls.appends < MaxAppends
    /\ \E data \in AddRequests : add_task(data)
    /\ calls' = [calls EXCEPT !.appends = IF task_history' # task_history THEN @ + 1 ELSE @]
    /\ UNCHANGED <<pc, rule_call, rng, workers>>

\* POST /api/reset
reset_data ==
    LET tasks == generate_sample_data(rng, NumTasks)
    IN  /\ task_history' = task_history \o tasks
        /\ learned_patterns' = learn_patterns(learned_patterns, tasks)
        /\ file' = save_data(task_history \o tasks)
        /\ response' = [op |-> "reset", status |-> 200,
                        total_tasks |-> Len(task_history \o tasks)]

ResetApi ==
    /\ pc = "serving"
    /\ calls.resets < MaxResets
    /\ reset_data
    /\ calls' = [calls EXCEPT !.resets = @ + 1]
    /\ UNCHANGED <<pc, rule_call, rng, workers>>

\* the process ends and is started again: a new engine is constructed,
\* task_data.json stays
Restart ==
    /\ pc \in {"serving", "crashed"}
    /\ pc' = "boot"
    /\ task_history' = <<>>
    /\ learned_patterns' = EmptyPatterns
    /\ response' = NoResponse
    /\ UNCHANGED <<file, rule_call, calls, rng, workers>>

Next ==
    \/ StartupLoad
    \/ StartupBootstrap
    \/ PredictApi
    \/ AddTaskApi
    \/ ResetApi
    \/ Restart

Spec == Init /\ [][Next]_vars

----------------------------------------------------------------------------
(* The server process when reading or writing task_data.json can fail *)

\* module start-up, task_data.json exists but is not a JSON document:
\* json.load raises, nothing catches it, the process exits with status 1
StartupLoadCrash ==
    /\ pc = "boot"
    /\ file.exists
    /\ ~file.complete
    /\ pc' = "crashed"
    /\ response' = [op |-> "load", status |-> 1]
    /\ UNCHANGED <<task_history, learned_patterns, file, rule_call, calls, rng, workers>>

\* module start-up, no task_data.json, save_data raises: nothing catches
\* it, the process exits with status 1 and its engine is gone
StartupBootstrapWriteFails ==
    /\ pc = "boot"
    /\ ~file.exists
    /\ calls.failures < MaxFailures
    /\ file' \in FailedWrites(file, task_history \o generate_sample_data(rng, NumTasks))
    /\ pc' = "crashed"
    /\ task_history' = <<>>
    /\ learned_patterns' = EmptyPatterns
    /\ response' = [op |-> "bootstrap", status |-> 1]
    /\ calls' = [calls EXCEPT !.failures = @ + 1]
    /\ UNCHANGED <<rule_call, rng, workers>>

\* the requests during which the write is made to fail
FailingPredictRequests ==
    {[task_type |-> "email", time_of_day |-> "morning", urgency |-> "high"]}

FailingAddRequests ==
    {[task_type |-> "email", time_of_day |-> "morning", urgency |-> "high",
      priority |-> "MEDIUM"]}

\* POST /api/predict, save_data raises: the except clause answers 500
predict_priority_api_write_fails(data) ==
    LET prediction == predict_priority(learned_patterns, data.task_type,
                                       data.time_of_day, data.urgency)
        new_task == NewTask(Len(task_history) + 1, data.task_type,
                            data.time_of_day, data.urgency, prediction.priority)
        history2 == Append(task_history, new_task)
    IN  /\ task_history' = history2
        /\ learned_patterns' = learn_patterns(learned_patterns, history2)
        /\ file' \in FailedWrites(file, history2)
        /\ response' = [op |-> "predict", status |-> 500, request |-> data,
                        error |-> "OSError"]

PredictApiWriteFails ==
    /\ pc = "serving"
    /\ calls.appends < MaxAppends
    /\ calls.failures < MaxFailures
    /\ \E data \in FailingPredictRequests : predict_priority_api_write_fails(data)
    /\ calls' = [calls EXCEPT !.appends = @ + 1, !.failures = @ + 1]
    /\ UNCHANGED <<pc, rule_call, rng, workers>>

\* POST /api/tasks, save_data raises: the except clause answers 500
add_task_write_fails(data) ==
    LET new_task == NewTask(Len(task_history) + 1, data.task_type,
                            data.time_of_day, data.urgency, data.priority)
        history2 == Append(task_history, new_task)
    IN  /\ task_history' = history2
        /\ learned_patterns' = learn_patterns(learned_patterns, history2)
        /\ file' \in FailedWrites(file, history2)
        /\ response' = [op |-> "add", status |-> 500, request |-> data,
                        error |-> "OSError"]

AddTaskApiWriteFails ==
    /\ pc = "serving"
    /\ calls.appends < MaxAppends
    /\ calls.failures < MaxFailures
    /\ \E data \in FailingAddRequests : add_task_write_fails(data)
    /\ calls' = [calls EXCEPT !.appends = @ + 1, !.failures = @ + 1]
    /\ UNCHANGED <<pc, rule_call, rng, workers>>

\* POST /api/reset, save_data raises: the except clause answers 500
reset_data_write_fails ==
    LET tasks == generate_sample_data(rng, NumTasks)
    IN  /\ task_history' = task_history \o tasks
        /\ learned_patterns' = learn_patterns(learned_patterns, tasks)
        /\ file' \in FailedWrites(file, task_history \o tasks)
        /\ response' = [op |-> "reset", status |-> 500, error |-> "OSError"]

ResetApiWriteFails ==
    /\ pc = "serving"
    /\ calls.resets < MaxResets
    /\ calls.failures < MaxFailures
    /\ reset_data_write_fails
    /\ calls' = [calls EXCEPT !.resets = @ + 1, !.failures = @ + 1]
    /\ UNCHANGED <<pc, rule_call, rng, workers>>

NextFaults ==
    \/ StartupLoad
    \/ StartupBootstrap
    \/ PredictApi
    \/ AddTaskApi
    \/ ResetApi
    \/ Restart
    \/ StartupLoadCrash
    \/ StartupBootstrapWriteFails
    \/ PredictApiWriteFails
    \/ AddTaskApiWriteFails
    \/ ResetApiWriteFails

SpecFaults == Init /\ [][NextFaults]_vars

----------------------------------------------------------------------------
(* The rule classifier called on its own, for every valid combination *)

ValidKeys == Range(task_types) \X Range(time_periods) \X Range(urgency_levels)

InitRules ==
    /\ pc = "boot"
    /\ task_history = <<>>
    /\ learned_patterns = EmptyPatterns
    /\ file = NoFile
    /\ response = NoResponse
    /\ calls = NoCalls
    /\ rng \in SeededDraws(NumTasks)
    /\ workers = NoWorkers
    /\ \E k \in ValidKeys :
         rule_call = [stage |-> "called", task_type |-> k[1], time_of_day |-> k[2],
                      urgency |-> k[3], priority |-> "", reasoning |-> ""]

RuleCall ==
    /\ rule_call.stage = "called"
    /\ rule_call' = [rule_call EXCEPT
                        !.stage = "returned",
                        !.priority = _calculate_rule_based_priority(
                                         rule_call.task_type, rule_call.time_of_day,
                                         rule_call.urgency)]
    /\ UNCHANGED <<pc, task_history, learned_patterns, file, response, calls, rng, workers>>

NextRules == RuleCall

SpecRules == InitRules /\ [][NextRules]_vars

----------------------------------------------------------------------------
(* learn_patterns called on its own, repeatedly, on an engine that holds a *)
(* History                                                                  *)

\* the records of the Histories the learner is called on
LearnDraws ==
    {<<"email", "morning", "high">>, <<"coding", "morning", "low">>} \X Range(priority_levels)

LearnHistories ==
    UNION {{[i \in 1..n |-> NewTask(i, h[i][1][1], h[i][1][2], h[i][1][3], h[i][2])] :
               h \in [1..n -> LearnDraws]} : n \in 0..(NumTasks + MaxAppends)}

InitLearn ==
    /\ pc = "direct"
    /\ task_history \in LearnHistories
    /\ learned_patterns = EmptyPatterns
    /\ file = NoFile
    /\ response = NoResponse
    /\ rule_call = NoCall
    /\ calls = NoCalls
    /\ rng \in SeededDraws(NumTasks)
    /\ workers = NoWorkers

\* ai.learn_patterns(ai.task_history), at most twice
LearnCall ==
    /\ pc = "direct"
    /\ calls.learns < 2
    /\ learned_patterns' = learn_patterns(learned_patterns, task_history)
    /\ calls' = [calls EXCEPT !.learns = @ + 1]
    /\ UNCHANGED <<pc, task_history, file, response, rule_call, rng, workers>>

NextLearn == LearnCall

SpecLearn == InitLearn /\ [][NextLearn]_vars

----------------------------------------------------------------------------
(* The server under app.run: each request is handled in a thread of its   *)
(* own, the handlers take no lock, and a thread can be descheduled        *)
(* between any two reads or writes of the engine's lists and dicts        *)

\* the requests the threads receive: one /api/predict and one /api/tasks
ThreadRequests ==
    {[op |-> "predict", task_type |-> "email", time_of_day |-> "morning", urgency |-> "high"],
     [op |-> "add", task_type |-> "email", time_of_day |-> "morning", urgency |-> "high",
      priority |-> "MEDIUM"]}

\* self.learned_patterns[key][priority], first half of +=: the defaultdicts
\* create a missing inner dict and a missing priority with 0
EnsurePattern(lp, key, priority) ==
    LET inner == IF key \in DOMAIN lp THEN lp[key] ELSE <<>>
        at == {i \in 1..Len(inner) : inner[i].priority = priority}
        inner2 == IF at = {}
                  THEN Append(inner, [priority |-> priority, count |-> 0])
                  ELSE inner
    IN  [k \in (DOMAIN lp) \cup {key} |-> IF k = key THEN inner2 ELSE lp[k]]

\* the count read by the first half of +=
ReadPattern(lp, key, priority) ==
    LET inner == EnsurePattern(lp, key, priority)[key]
    IN  inner[CHOOSE i \in 1..Len(inner) : inner[i].priority = priority].count

\* second half of +=: the value computed from the count read is stored
StorePattern(lp, key, priority, value) ==
    LET lp2 == EnsurePattern(lp, key, priority)
    IN  [lp2 EXCEPT ![key] = [i \in 1..Len(lp2[key]) |->
                                 IF lp2[key][i].priority = priority
                                 THEN [priority |-> priority, count |-> value]
                                 ELSE lp2[key][i]]]

\* request.get_json(), the field check, predict_priority and _get_reasoning
ThreadAccept(t) ==
    /\ pc = "serving"
    /\ workers[t].pc = "idle"
    /\ calls.appends < MaxAppends
    /\ \E data \in ThreadRequests :
          LET prediction == predict_priority(learned_patterns, data.task_type,
                                             data.time_of_day, data.urgency)
          IN  workers' = [workers EXCEPT ![t] =
                  [pc |-> "task_id", op |-> data.op,
                   request |-> [task_type |-> data.task_type,
                                time_of_day |-> data.time_of_day,
                                urgency |-> data.urgency],
                   priority |-> IF data.op = "predict" THEN prediction.priority
                                ELSE data.priority,
                   confidence |-> IF data.op = "predict" THEN prediction.confidence
                                  ELSE <<0, 1>>,
                   task_id |-> 0, completion_order |-> 0, i |-> 0, seen |-> 0]]
    /\ calls' = [calls EXCEPT !.appends = @ + 1]
    /\ UNCHANGED <<pc, task_history, learned_patterns, file, response, rule_call, rng>>

\* 'task_id': len(ai_system.task_history) + 1
ThreadReadTaskId(t) ==
    /\ workers[t].pc = "task_id"
    /\ workers' = [workers EXCEPT ![t].pc = "completion_order",
                                  ![t].task_id = Len(task_history) + 1]
    /\ UNCHANGED <<pc, task_history, learned_patterns, file, response, rule_call, calls, rng>>

\* 'completion_order': len(ai_system.task_history) + 1
ThreadReadCompletionOrder(t) ==
    /\ workers[t].pc = "completion_order"
    /\ workers' = [workers EXCEPT ![t].pc = "append",
                                  ![t].completion_order = Len(task_history) + 1]
    /\ UNCHANGED <<pc, task_history, learned_patterns, file, response, rule_call, calls, rng>>

\* ai_system.task_history.append(new_task)
ThreadAppend(t) ==
    LET w == workers[t]
        new_task == [NewTask(w.task_id, w.request.task_type, w.request.time_of_day,
                             w.request.urgency, w.priority)
                        EXCEPT !.completion_order = w.completion_order]
    IN  /\ w.pc = "append"
        /\ task_history' = Append(task_history, new_task)
        /\ workers' = [workers EXCEPT ![t].pc = "learn", ![t].i = 1]
        /\ UNCHANGED <<pc, learned_patterns, file, response, rule_call, calls, rng>>

\* learn_patterns, one pass of the loop up to the read of the count: the
\* list iterator looks at the list as it is now
ThreadLearnRead(t) ==
    LET w == workers[t]
    IN  /\ w.pc = "learn"
        /\ w.i <= Len(task_history)
        /\ LET task == task_history[w.i]
               key == PatternKey(task.task_type, task.time_of_day, task.urgency)
           IN  /\ learned_patterns' = EnsurePattern(learned_patterns, key, task.priority)
               /\ workers' = [workers EXCEPT
                      ![t].pc = "learn_store",
                      ![t].seen = ReadPattern(learned_patterns, key, task.priority)]
        /\ UNCHANGED <<pc, task_history, file, response, rule_call, calls, rng>>

\* learn_patterns, the rest of the pass: the count read plus one is stored
ThreadLearnStore(t) ==
    LET w == workers[t]
    IN  /\ w.pc = "learn_store"
        /\ LET task == task_history[w.i]
               key == PatternKey(task.task_type, task.time_of_day, task.urgency)
           IN  learned_patterns' = StorePattern(learned_patterns, key, task.priority, w.seen + 1)
        /\ workers' = [workers EXCEPT ![t].pc = "learn", ![t].i = w.i + 1]
        /\ UNCHANGED <<pc, task_history, file, response, rule_call, calls, rng>>

\* save_data: the loop is over, open(filename, 'w') empties the file
ThreadOpen(t) ==
    LET w == workers[t]
    IN  /\ w.pc = "learn"
        /\ w.i > Len(task_history)
        /\ file' = TruncatedFile(json_dump(task_history), 0)
        /\ workers' = [workers EXCEPT ![t].pc = "dump"]
        /\ UNCHANGED <<pc, task_history, learned_patterns, response, rule_call, calls, rng>>

\* save_data: json.dump and close, then the handler answers.  When another
\* thread writes through a handle of its own the file can end up with the
\* bytes of both.
ThreadDump(t) ==
    LET w == workers[t]
    IN  /\ w.pc = "dump"
        /\ file' \in {save_data(task_history)} \cup
                     (IF \E s \in Threads \ {t} : workers[s].pc = "dump"
                      THEN {TruncatedFile(json_dump(task_history), 0)}
                      ELSE {})
        /\ response' = IF w.op = "predict"
                       THEN [op |-> "predict", status |-> 200, request |-> w.request,
                             priority |-> w.priority, confidence |-> w.confidence,
                             reasoning |-> _get_reasoning(w.request.task_type,
                                                          w.request.time_of_day,
                                                          w.request.urgency)]
                       ELSE [op |-> "add", status |-> 200,
                             request |-> [task_type |-> w.request.task_type,
                                          time_of_day |-> w.request.time_of_day,
                                          urgency |-> w.request.urgency,
                                          priority |-> w.priority],
                             task |-> [NewTask(w.task_id, w.request.task_type,
                                               w.request.time_of_day, w.request.urgency,
                                               w.priority)
                                          EXCEPT !.completion_order = w.completion_order]]
        /\ workers' = [workers EXCEPT ![t] = IdleWorker]
        /\ UNCHANGED <<pc, task_history, learned_patterns, rule_call, calls, rng>>

NextThreads ==
    \/ StartupBootstrap
    \/ \E t \in Threads : ThreadAccept(t)
    \/ \E t \in Threads : ThreadReadTaskId(t)
    \/ \E t \in Threads : ThreadReadCompletionOrder(t)
    \/ \E t \in Threads : ThreadAppend(t)
    \/ \E t \in Threads : ThreadLearnRead(t)
    \/ \E t \in Threads : ThreadLearnStore(t)
    \/ \E t \in Threads : ThreadOpen(t)
    \/ \E t \in Threads : ThreadDump(t)

SpecThreads == Init /\ [][NextThreads]_vars

----------------------------------------------------------------------------
(* _get_reasoning called as /api/predict calls it, after predict_priority, *)
(* on an engine that has or has not learned the combination                *)

\* the engine has learned nothing, or one record with the combination asked
ReasoningHistories(k) == {<<>>, <<NewTask(1, k[1], k[2], k[3], "LOW")>>}

InitReasoning ==
    /\ pc = "direct"
    /\ \E k \in ValidKeys :
         /\ task_history \in ReasoningHistories(k)
         /\ rule_call = [stage |-> "asked", task_type |-> k[1], time_of_day |-> k[2],
                         urgency |-> k[3], priority |-> "", reasoning |-> ""]
    /\ learned_patterns = learn_patterns(EmptyPatterns, task_history)
    /\ file = NoFile
    /\ response = NoResponse
    /\ calls = NoCalls
    /\ rng \in SeededDraws(NumTasks)
    /\ workers = NoWorkers

ReasoningCall ==
    /\ rule_call.stage = "asked"
    /\ rule_call' = [rule_call EXCEPT
                        !.stage = "explained",
                        !.priority = predict_priority(learned_patterns, rule_call.task_type,
                                                      rule_call.time_of_day,
                                                      rule_call.urgency).priority,
                        !.reasoning = _get_reasoning(rule_call.task_type,
                                                     rule_call.time_of_day,
                                                     rule_call.urgency)]
    /\ UNCHANGED <<pc, task_history, learned_patterns, file, response, calls, rng, workers>>

NextReasoning == ReasoningCall

SpecReasoning == InitReasoning /\ [][NextReasoning]_vars

----------------------------------------------------------------------------
(* The server with one client that keeps working on the same combination:  *)
(* it enters it by hand and asks for its prediction again and again         *)

\* the body the client posts to /api/predict
RunPredictRequest == [task_type |-> "email", time_of_day |-> "morning", urgency |-> "high"]

\* the body the client posts to /api/tasks
RunAddRequest ==
    [task_type |-> "email", time_of_day |-> "morning", urgency |-> "high", priority |-> "MEDIUM"]

RunPredict ==
    /\ pc = "serving"
    /\ calls.appends < MaxRun
    /\ predict_priority_api(RunPredictRequest)
    /\ calls' = [calls EXCEPT !.appends = @ + 1]
    /\ UNCHANGED <<pc, rule_call, rng, workers>>

RunAdd ==
    /\ pc = "serving"
    /\ calls.appends < MaxRun
    /\ add_task(RunAddRequest)
    /\ calls' = [calls EXCEPT !.appends = @ + 1]
    /\ UNCHANGED <<pc, rule_call, rng, workers>>

NextRun ==
    \/ StartupBootstrap
    \/ RunPredict
    \/ RunAdd
    \/ ResetApi

SpecRun == Init /\ [][NextRun]_vars

----------------------------------------------------------------------------
(* Vocabulary of the properties *)

KeyOf(task) == <<task.task_type, task.time_of_day, task.urgency>>

HistoryKeys == {KeyOf(task_history[i]) : i \in 1..Len(task_history)}

HistoryPriorities == {task_history[i].priority : i \in 1..Len(task_history)}

\* number of History records with key K and priority P
HistoryCount(K, P) ==
    Cardinality({i \in 1..Len(task_history) :
                    KeyOf(task_history[i]) = K /\ task_history[i].priority = P})

\* number of History records with key K
HistoryTotal(K) ==
    Cardinality({i \in 1..Len(task_history) : KeyOf(task_history[i]) = K})

\* the count the pattern store holds for key K and priority P (0 when absent)
StoreCount(K, P) ==
    LET key == PatternKey(K[1], K[2], K[3])
    IN  IF key \notin DOMAIN learned_patterns THEN 0
        ELSE LET at == {i \in 1..Len(learned_patterns[key]) :
                           learned_patterns[key][i].priority = P}
             IN  IF at = {} THEN 0
                 ELSE learned_patterns[key][CHOOSE i \in at : TRUE].count

StoreIsTallyOfHistory ==
    /\ \A K \in HistoryKeys \cup ValidKeys :
         \A P \in HistoryPriorities \cup Range(priority_levels) :
            StoreCount(K, P) = HistoryCount(K, P)
    /\ DOMAIN learned_patterns = {PatternKey(K[1], K[2], K[3]) : K \in HistoryKeys}

Predicted(K) == predict_priority(learned_patterns, K[1], K[2], K[3])

InDomainKey(K) == K \in ValidKeys

InDomainHistory ==
    \A i \in 1..Len(task_history) :
        /\ InDomainKey(KeyOf(task_history[i]))
        /\ task_history[i].priority \in Range(priority_levels)

----------------------------------------------------------------------------
(* C1: after every completed operation the pattern store is exactly the    *)
(* tally of the current History: for every key and priority the stored     *)
(* count equals the number of History records with that key and priority.  *)
C1_StoreIsTallyOfHistory ==
    pc = "serving" => StoreIsTallyOfHistory

(* C2: for every key that occurs in History, predict returns a priority    *)
(* whose number of occurrences among the History records with that key is  *)
(* maximal.                                                                *)
C2_PredictIsHistoryMajority ==
    pc = "serving" =>
        \A K \in HistoryKeys :
            \A P \in HistoryPriorities :
                HistoryCount(K, P) <= HistoryCount(K, Predicted(K).priority)

(* C3: for every key that occurs in History, the confidence of predict is  *)
(* (History records with the key and the returned priority) / (History     *)
(* records with the key), and lies in (0, 1].                              *)
C3_ConfidenceIsHistoryFraction ==
    pc = "serving" =>
        \A K \in HistoryKeys :
            LET c == Predicted(K).confidence
            IN  /\ c[2] > 0
                /\ c[1] * HistoryTotal(K) = HistoryCount(K, Predicted(K).priority) * c[2]
                /\ 0 < c[1]
                /\ c[1] <= c[2]

(* C4: for every valid combination that occurs in no History record,       *)
(* predict returns the rule classifier's priority with confidence 0.6,     *)
(* also when History and the store are empty.                              *)
C4_UnseenKeyUsesRule ==
    \A K \in ValidKeys :
        K \notin HistoryKeys =>
            /\ Predicted(K).priority = _calculate_rule_based_priority(K[1], K[2], K[3])
            /\ Predicted(K).confidence = <<3, 5>>

\* /api/predict answered a valid combination seen for the first time (its
\* record is the only one with that key) from the rules, with confidence 0.6
C4_Witness ==
    /\ response.op = "predict"
    /\ response.status = 200
    /\ KeyOf(response.request) \in ValidKeys
    /\ HistoryTotal(KeyOf(response.request)) = 1
    /\ Len(task_history) > 1
    /\ response.confidence = <<3, 5>>
    /\ response.priority = "HIGH"
    /\ response.request.urgency = "low"

\* the priorities that hold the largest stored count under key K
TiedAtMax(K) ==
    LET inner == learned_patterns[PatternKey(K[1], K[2], K[3])]
    IN  {inner[i].priority : i \in {i \in 1..Len(inner) :
            \A j \in 1..Len(inner) : inner[j].count <= inner[i].count}}

EnumerationIndex(P) == CHOOSE i \in 1..Len(priority_levels) : priority_levels[i] = P

\* position in History of the first record with key K and priority P
FirstSeen(K, P) ==
    LET at == {i \in 1..Len(task_history) :
                  KeyOf(task_history[i]) = K /\ task_history[i].priority = P}
    IN  CHOOSE i \in at : \A j \in at : i <= j

(* C5 as stated: when several priorities are tied for the maximum count    *)
(* under a key, predict returns the tied priority that comes first in the  *)
(* enumeration order HIGH, MEDIUM, LOW.                                    *)
C5_TieBreakEnumerationOrder ==
    \A K \in HistoryKeys :
        Cardinality(TiedAtMax(K)) >= 2 =>
            /\ Predicted(K).priority \in TiedAtMax(K)
            /\ \A Q \in TiedAtMax(K) :
                  EnumerationIndex(Predicted(K).priority) <= EnumerationIndex(Q)

(* C5 amended: when several priorities are tied for the maximum stored     *)
(* count under a key, predict returns the tied priority that was observed  *)
(* first under that key (the earliest first occurrence among the History   *)
(* records with the key), whatever its place in HIGH, MEDIUM, LOW.         *)
C5_TieBreakFirstObserved ==
    \A K \in HistoryKeys :
        Cardinality(TiedAtMax(K)) >= 2 =>
            /\ Predicted(K).priority \in TiedAtMax(K)
            /\ \A Q \in TiedAtMax(K) :
                  FirstSeen(K, Predicted(K).priority) <= FirstSeen(K, Q)

\* a tie in which the priority returned is not the first of the enumeration
C5_Witness ==
    \E K \in HistoryKeys :
        /\ Cardinality(TiedAtMax(K)) >= 2
        /\ "HIGH" \in TiedAtMax(K)
        /\ Predicted(K).priority = "MEDIUM"

(* C6: for each of the 6 x 3 x 3 valid combinations the rule classifier    *)
(* returns the result of the first matching rule of the ordered list       *)
(* (1) high and morning -> HIGH, (2) email and afternoon -> MEDIUM,        *)
(* (3) coding or research and morning -> HIGH, (4) meeting and afternoon   *)
(* -> MEDIUM, (5) evening -> LOW, (6) otherwise by urgency; some rule      *)
(* always matches; (coding, morning, low) gives HIGH and (personal,        *)
(* evening, low) gives LOW.                                                *)
RuleMatches(n, task_type, time_of_day, urgency) ==
    CASE n = 1 -> urgency = "high" /\ time_of_day = "morning"
      [] n = 2 -> task_type = "email" /\ time_of_day = "afternoon"
      [] n = 3 -> task_type \in {"coding", "research"} /\ time_of_day = "morning"
      [] n = 4 -> task_type = "meeting" /\ time_of_day = "afternoon"
      [] n = 5 -> time_of_day = "evening"
      [] n = 6 -> urgency \in {"high", "medium", "low"}

RuleOutcome(n, urgency) ==
    CASE n \in {1, 3} -> "HIGH"
      [] n \in {2, 4} -> "MEDIUM"
      [] n = 5 -> "LOW"
      [] n = 6 -> (CASE urgency = "high" -> "HIGH"
                     [] urgency = "medium" -> "MEDIUM"
                     [] urgency = "low" -> "LOW")

C6_FirstMatchingRuleWins ==
    rule_call.stage = "returned" =>
        LET t == rule_call.task_type
            d == rule_call.time_of_day
            u == rule_call.urgency
            matching == {n \in 1..6 : RuleMatches(n, t, d, u)}
        IN  /\ matching # {}
            /\ rule_call.priority =
                 RuleOutcome(CHOOSE n \in matching : \A m \in matching : n <= m, u)
            /\ (t = "coding" /\ d = "morning" /\ u = "low" => rule_call.priority = "HIGH")
            /\ (t = "personal" /\ d = "evening" /\ u = "low" => rule_call.priority = "LOW")

\* a combination two rules match: evening (rule 5) with high urgency (rule 6)
C6_Witness ==
    /\ rule_call.stage = "returned"
    /\ rule_call.time_of_day = "evening"
    /\ rule_call.urgency = "high"
    /\ rule_call.priority = "LOW"

(* C7: with a History of in-domain records, for every input of the         *)
(* enumerated domains predict returns one priority of {HIGH, MEDIUM, LOW}  *)
(* and a confidence greater than 0 and at most 1.                          *)
C7_PredictTotalOnDomain ==
    InDomainHistory =>
        \A K \in ValidKeys :
            /\ Predicted(K).priority \in Range(priority_levels)
            /\ 0 < Predicted(K).confidence[1]
            /\ Predicted(K).confidence[1] <= Predicted(K).confidence[2]

\* an in-domain History in which a key has two different priorities, one
\* valid key is unseen, and /api/predict has just answered
C7_Witness ==
    /\ InDomainHistory
    /\ response.op = "predict"
    /\ response.status = 200
    /\ \E K \in HistoryKeys : \E P \in Range(priority_levels) :
          0 < HistoryCount(K, P) /\ HistoryCount(K, P) < HistoryTotal(K)
    /\ ValidKeys \ HistoryKeys # {}

(* C8: a predict or addRecord call with a task_type, time_of_day or        *)
(* urgency outside its enumeration fails instead of returning a priority,  *)
(* and no record with the out-of-domain value enters History or the store. *)
C8_UnknownCategoryRejected ==
    /\ (response.op \in {"predict", "add"} /\ response.status = 200
            => InDomainKey(KeyOf(response.request)))
    /\ \A K \in HistoryKeys : InDomainKey(K)
    /\ \A K \in HistoryKeys \ ValidKeys :
          PatternKey(K[1], K[2], K[3]) \notin DOMAIN learned_patterns

(* C9: every History record has task_id equal to completion_order and the  *)
(* record at position i has task_id i, so no two records share a task_id.  *)
C9_TaskIdsArePositions ==
    pc = "serving" =>
        \A i \in 1..Len(task_history) :
            /\ task_history[i].task_id = task_history[i].completion_order
            /\ task_history[i].task_id = i

(* C10: after a reset History consists of exactly the freshly generated    *)
(* sample records and the pattern store is the tally of those records.     *)
C10_ResetReplacesHistory ==
    response.op = "reset" =>
        /\ task_history = generate_sample_data(rng, NumTasks)
        /\ StoreIsTallyOfHistory

(* C11: learn is idempotent: a second learn call on the same History       *)
(* leaves the pattern store as the first call left it.                     *)
C11_LearnIdempotent ==
    [][(calls.learns >= 1 /\ calls'.learns = calls.learns + 1)
          => learned_patterns' = learned_patterns]_vars

(* C12: after every mutating operation that completes successfully the    *)
(* persisted copy is the entire in-memory History, and loading it gives    *)
(* back the identical sequence of records.                                 *)
C12_PersistedCopyRoundTrips ==
    pc = "serving" =>
        /\ file.exists
        /\ file.complete
        /\ file.text = json_dump(task_history)
        /\ json_load(file.text) = task_history

\* /api/tasks has just added a record to a History that already had some
C12_Witness ==
    /\ response.op = "add"
    /\ response.status = 200
    /\ Len(task_history) >= 2
    /\ task_history[Len(task_history)] = response.task
    /\ Len(file.text) = Len(task_history)

(* C13: when the write fails during an API predict or addRecord, the       *)
(* failure is reported and the in-memory History is not left different     *)
(* from the persisted copy: append, learn and persist happen together or   *)
(* not at all.                                                             *)
C13_FailedWriteLeavesNoDifference ==
    (response.op \in {"predict", "add"} /\ response.status = 500) =>
        /\ file.exists
        /\ file.complete
        /\ json_load(file.text) = task_history

(* C14: a write that fails leaves the previously persisted History intact  *)
(* and loadable: no failure exposes an empty or partial file.              *)
C14_FailedWriteKeepsPersistedCopy ==
    [][(file.exists /\ file.complete /\ response'.status = 500) => file' = file]_vars

(* C15: at start-up a missing or unreadable task_data.json makes the       *)
(* engine bootstrap by sample generation, learn and persist; a readable    *)
(* one makes the in-memory History exactly the loaded sequence.            *)
C15_StartupDegradesToBootstrap ==
    /\ ~(pc = "crashed" /\ response.op = "load")
    /\ (response.op = "bootstrap" /\ response.status = 0 =>
            /\ task_history = generate_sample_data(rng, NumTasks)
            /\ StoreIsTallyOfHistory
            /\ file = save_data(task_history))
    /\ (response.op = "load" /\ response.status = 0 =>
            task_history = json_load(file.text))

\* the thread has computed its task_id and has not yet persisted
InMutatingSection(t) == workers[t].pc \notin {"idle", "task_id"}

(* C16: under the concurrent request server the mutating sections of two   *)
(* requests (task_id from the History length, append, rebuild, persist)    *)
(* never interleave, so no two records get the same task_id and the store  *)
(* is never rebuilt from a History that is being appended to.              *)
C16_MutatingSectionsSerialized ==
    /\ \A s, t \in Threads : s # t => ~(InMutatingSection(s) /\ InMutatingSection(t))
    /\ \A i, j \in 1..Len(task_history) :
          i # j => task_history[i].task_id # task_history[j].task_id

(* C17: History is append-only for API predict and addRecord: the History  *)
(* before the operation is a prefix of the History after it, and a         *)
(* completed operation appends exactly one record, whose task_type,        *)
(* time_of_day and urgency are the call's inputs and whose priority is     *)
(* the predicted priority (predict) or the supplied priority (addRecord).  *)
C17_HistoryAppendOnly ==
    [][response'.op \in {"predict", "add"} =>
          /\ Len(task_history') >= Len(task_history)
          /\ SubSeq(task_history', 1, Len(task_history)) = task_history
          /\ (response'.status = 400 => task_history' = task_history)
          /\ (response'.status = 200 =>
                LET data == response'.request
                    last == task_history'[Len(task_history')]
                IN  /\ Len(task_history') = Len(task_history) + 1
                    /\ last.task_type = data.task_type
                    /\ last.time_of_day = data.time_of_day
                    /\ last.urgency = data.urgency
                    /\ (response'.op = "predict" =>
                          /\ last.priority = response'.priority
                          /\ last.priority =
                                predict_priority(learned_patterns, data.task_type,
                                                 data.time_of_day, data.urgency).priority)
                    /\ (response'.op = "add" => last.priority = data.priority))]_vars

\* /api/predict has appended its prediction behind two older records
C17_Witness ==
    /\ response.op = "predict"
    /\ response.status = 200
    /\ Len(task_history) >= 3
    /\ KeyOf(task_history[Len(task_history)]) = KeyOf(response.request)
    /\ task_history[Len(task_history)].priority = response.priority

(* C18: every prediction or manual entry is training data for the next     *)
(* call: after an API predict or addRecord for key K the store holds K      *)
(* with a positive total, and after an API predict for a key the store did  *)
(* not hold, answered from the rules with p, the next predict for K         *)
(* returns p with confidence 1.                                             *)
C18_FeedbackLoop ==
    [][(response'.op \in {"predict", "add"} /\ response'.status = 200) =>
          LET data == response'.request
              key == PatternKey(data.task_type, data.time_of_day, data.urgency)
              next == predict_priority(learned_patterns', data.task_type,
                                       data.time_of_day, data.urgency)
          IN  /\ key \in DOMAIN learned_patterns'
              /\ SumCounts(learned_patterns'[key], 1) > 0
              /\ ((response'.op = "predict" /\ key \notin DOMAIN learned_patterns) =>
                    /\ response'.priority =
                          _calculate_rule_based_priority(data.task_type, data.time_of_day,
                                                         data.urgency)
                    /\ response'.confidence = RuleConfidence
                    /\ next.priority = response'.priority
                    /\ next.confidence = <<1, 1>>)]_vars

\* /api/predict answered a key seen for the first time from the rules, and
\* the store now answers that key from the one record just learned
C18_Witness ==
    /\ response.op = "predict"
    /\ response.status = 200
    /\ response.confidence = RuleConfidence
    /\ HistoryTotal(KeyOf(response.request)) = 1
    /\ Predicted(KeyOf(response.request)).priority = response.priority
    /\ Predicted(KeyOf(response.request)).confidence = <<1, 1>>

\* the text for each combination of applicable clauses, written out
ExpectedReasoning(task_type, time_of_day, urgency) ==
    LET high == urgency = "high"
        morning == time_of_day = "morning"
        creative == task_type \in {"coding", "research"}
        email == task_type = "email"
    IN  CASE high /\ morning /\ creative ->
               "High urgency task + Morning time slot (typically high productivity) + Creative/technical task"
          [] high /\ morning /\ email ->
               "High urgency task + Morning time slot (typically high productivity) + Communication task"
          [] high /\ morning /\ ~creative /\ ~email ->
               "High urgency task + Morning time slot (typically high productivity)"
          [] high /\ ~morning /\ creative -> "High urgency task + Creative/technical task"
          [] high /\ ~morning /\ email -> "High urgency task + Communication task"
          [] high /\ ~morning /\ ~creative /\ ~email -> "High urgency task"
          [] ~high /\ morning /\ creative ->
               "Morning time slot (typically high productivity) + Creative/technical task"
          [] ~high /\ morning /\ email ->
               "Morning time slot (typically high productivity) + Communication task"
          [] ~high /\ morning /\ ~creative /\ ~email ->
               "Morning time slot (typically high productivity)"
          [] ~high /\ ~morning /\ creative -> "Creative/technical task"
          [] ~high /\ ~morning /\ email -> "Communication task"
          [] ~high /\ ~morning /\ ~creative /\ ~email -> "Based on learned patterns"

(* C19: for every valid input the reasoning text is the applicable clauses *)
(* in the order urgency high, time_of_day morning, task_type coding or     *)
(* research, task_type email, each once, joined by " + "; it is the        *)
(* fallback phrase exactly when no clause applies; it is the same whether  *)
(* the engine has learned the combination or answers from the rules.       *)
C19_ReasoningIsOrderedClauses ==
    rule_call.stage = "explained" =>
        /\ rule_call.reasoning = ExpectedReasoning(rule_call.task_type, rule_call.time_of_day,
                                                   rule_call.urgency)
        /\ (rule_call.reasoning = "Based on learned patterns") <=>
              /\ rule_call.urgency # "high"
              /\ rule_call.time_of_day # "morning"
              /\ rule_call.task_type \notin {"coding", "research", "email"}

\* three clauses apply, on an engine that answered from a learned pattern
C19_Witness ==
    /\ rule_call.stage = "explained"
    /\ rule_call.task_type = "email"
    /\ rule_call.time_of_day = "morning"
    /\ rule_call.urgency = "high"
    /\ task_history # <<>>
    /\ rule_call.priority = "LOW"
    /\ rule_call.reasoning =
          "High urgency task + Morning time slot (typically high productivity) + Communication task"

(* C20: repeated API predictions are stable: when /api/predict for key K   *)
(* returned p, an immediately following /api/predict for K also returns p. *)
C20_RepeatedPredictStable ==
    [][(/\ response.op = "predict"
        /\ response.status = 200
        /\ response'.op = "predict"
        /\ response'.status = 200
        /\ response'.request = response.request)
          => response'.priority = response.priority]_vars

====
